---- MODULE Spec2Model ----
(***************************************************************************)
(* Model of the nba-tracker-frontend fragment:                             *)
(*   app/page.tsx        the page component Home()                         *)
(*   next.config.js      the build configuration (allowed dev origins)     *)
(*   tailwind.config.js  the CSS-utility configuration (content globs)     *)
(*                                                                         *)
(* Source text is kept character by character (globs) or token by token    *)
(* (JSX text: words, single spaces, newlines), so that the JSX whitespace  *)
(* rules and the glob rules are computed rather than assumed.  Str turns   *)
(* such a sequence back into the string it spells.                         *)
(***************************************************************************)
EXTENDS Integers, Sequences, FiniteSets, TLC

VARIABLES nextConfig, tailwindConfig, responses, scanFile, scanIncluded

vars == <<nextConfig, tailwindConfig, responses, scanFile, scanIncluded>>

(* ------------------------------ bounds -------------------------------- *)

\* Page requests kept in the response log.
MaxRequests == 2

\* Directory levels of a scanned file below the project root.
MaxDepth == 2

(* --------------------------- text helpers ----------------------------- *)

RECURSIVE Str(_)
\* The string spelled by a sequence of strings.
Str(s) == IF s = <<>> THEN "" ELSE Head(s) \o Str(Tail(s))

Spaces(n) == [i \in 1..n |-> " "]

RECURSIVE TrimLeft(_)
\* line.replace(/^[ ]+/, "")
TrimLeft(line) ==
  IF line # <<>> /\ Head(line) = " " THEN TrimLeft(Tail(line)) ELSE line

RECURSIVE TrimRight(_)
\* line.replace(/[ ]+$/, "")
TrimRight(line) ==
  IF line # <<>> /\ line[Len(line)] = " "
  THEN TrimRight(SubSeq(line, 1, Len(line) - 1))
  ELSE line

RECURSIVE SplitOn(_, _)
\* text.split(sep): the pieces between the occurrences of sep.
SplitOn(s, sep) ==
  IF \E i \in 1..Len(s) : s[i] = sep
  THEN LET i == CHOOSE k \in 1..Len(s) :
                   s[k] = sep /\ \A j \in 1..(k - 1) : s[j] # sep
       IN <<SubSeq(s, 1, i - 1)>> \o SplitOn(SubSeq(s, i + 1, Len(s)), sep)
  ELSE <<s>>

(* ------------------------- JSX (app/page.tsx) ------------------------- *)

\* A tab counts as a space inside JSX text.
Untab(line) == [i \in 1..Len(line) |-> IF line[i] = "\t" THEN " " ELSE line[i]]

\* JSX text of one child, as the JSX transform keeps it: the text is cut
\* into lines, every line but the first loses its leading blanks, every line
\* but the last its trailing blanks, blank lines vanish, and the lines that
\* remain are joined by one space.
RECURSIVE JoinLines(_, _, _, _)
JoinLines(lines, i, lastNonEmpty, acc) ==
  IF i > Len(lines) THEN acc
  ELSE LET l0 == Untab(lines[i])
           l1 == IF i # 1 THEN TrimLeft(l0) ELSE l0
           l2 == IF i # Len(lines) THEN TrimRight(l1) ELSE l1
           l3 == IF l2 # <<>> /\ i # lastNonEmpty THEN l2 \o <<" ">> ELSE l2
       IN JoinLines(lines, i + 1, lastNonEmpty, acc \o l3)

\* The text taken as it stands in the source, line breaks and indentation
\* included.
CleanJSXTextVerbatim(tokens) == tokens

CleanJSXText(tokens) ==
  LET lines == SplitOn(tokens, "\n")
      nonEmpty == {i \in 1..Len(lines) :
                     \E k \in 1..Len(lines[i]) : lines[i][k] \notin {" ", "\t"}}
      lastNonEmpty == IF nonEmpty = {} THEN 0
                      ELSE CHOOSE i \in nonEmpty : \A j \in nonEmpty : j <= i
  IN JoinLines(lines, 1, lastNonEmpty, <<>>)

\* A text child as written between the tags.
RawText(tokens) == [type |-> "rawtext", tokens |-> tokens]

TextNode(value) == [type |-> "text", value |-> value]

RECURSIVE CleanChildren(_)
\* The children an element is created with: text that cleans to nothing is
\* no child at all, other text becomes one string child, elements stay.
CleanChildren(raw) ==
  IF raw = <<>> THEN <<>>
  ELSE LET c == Head(raw)
           rest == CleanChildren(Tail(raw))
       IN IF c.type = "rawtext"
          THEN LET t == CleanJSXText(c.tokens)
               IN IF t = <<>> THEN rest ELSE <<TextNode(Str(t))>> \o rest
          ELSE <<c>> \o rest

\* <tag className="...">children</tag>
JSX(tag, className, rawChildren) ==
  [type |-> "element", tag |-> tag, className |-> className,
   children |-> CleanChildren(rawChildren)]

H1TextPlural == <<"NBA", " ", "Bad", " ", "Calls", " ", "Tracker">>

H1Text == <<"NBA", " ", "Bad", " ", "Call", " ", "Tracker">>

PText ==
  <<"\n">> \o Spaces(8) \o
  <<"Track", " ", "and", " ", "review", " ", "questionable", " ", "referee",
    " ", "decisions", " ", "in", " ", "the", " ", "final", " ", "moments",
    " ", "of", " ", "NBA", " ", "games.">> \o
  <<"\n">> \o Spaces(6)

H1 == JSX("h1", "text-4xl font-bold mb-6", <<RawText(H1Text)>>)

P == JSX("p", "text-lg text-gray-600 dark:text-gray-300 max-w-xl",
         <<RawText(PText)>>)

\* The paragraph written above the heading.
HomeParagraphFirst ==
  JSX("main",
      "flex min-h-screen flex-col items-center justify-center p-12 text-center",
      <<RawText(<<"\n">> \o Spaces(6)), P,
        RawText(<<"\n">> \o Spaces(6)), H1,
        RawText(<<"\n">> \o Spaces(4))>>)

\* export default function Home()
Home ==
  JSX("main",
      "flex min-h-screen flex-col items-center justify-center p-12 text-center",
      <<RawText(<<"\n">> \o Spaces(6)), H1,
        RawText(<<"\n">> \o Spaces(6)), P,
        RawText(<<"\n">> \o Spaces(4))>>)

(* --------------------------- markup queries --------------------------- *)

RECURSIVE Elements(_, _)
\* The elements with the given tag in the tree under (and including) node,
\* in document order.
Elements(node, tag) ==
  IF node.type # "element" THEN <<>>
  ELSE LET RECURSIVE Under(_)
           Under(cs) == IF cs = <<>> THEN <<>>
                        ELSE Elements(Head(cs), tag) \o Under(Tail(cs))
       IN (IF node.tag = tag THEN <<node>> ELSE <<>>) \o Under(node.children)

RECURSIVE TextContent(_)
\* node.textContent
TextContent(node) ==
  IF node.type = "text" THEN node.value
  ELSE LET RECURSIVE Under(_)
           Under(cs) == IF cs = <<>> THEN ""
                        ELSE TextContent(Head(cs)) \o Under(Tail(cs))
       IN Under(node.children)

ElementChildren(node) == SelectSeq(node.children, LAMBDA c : c.type = "element")

(* ----------------------- next.config.js ------------------------------- *)

\* The list with its last entry left out.
NextConfigExportsShort ==
  [experimental |->
     [allowedDevOrigins |->
        <<"http://localhost:3000",
          "http://localhost:3001",
          "http://localhost:3002">>]]

\* module.exports of next.config.js
NextConfigExports ==
  [experimental |->
     [allowedDevOrigins |->
        <<"http://localhost:3000",
          "http://localhost:3001",
          "http://localhost:3002",
          "http://localhost:3003">>]]

(* ---------------------- tailwind.config.js ---------------------------- *)

\* "./app/**/*.{js,ts,jsx,tsx}", character by character.
AppGlob ==
  <<".", "/", "a", "p", "p", "/", "*", "*", "/", "*", ".",
    "{", "j", "s", ",", "t", "s", ",", "j", "s", "x", ",", "t", "s", "x", "}">>

\* "./pages/**/*.{js,ts,jsx,tsx}", character by character.
PagesGlob ==
  <<".", "/", "p", "a", "g", "e", "s", "/", "*", "*", "/", "*", ".",
    "{", "j", "s", ",", "t", "s", ",", "j", "s", "x", ",", "t", "s", "x", "}">>

\* The pages/ pattern taken out of its comment.
TailwindConfigExportsWithPages ==
  [content |-> <<AppGlob, PagesGlob>>,
   theme |-> [extend |-> <<>>],
   plugins |-> <<>>]

\* A plugin added to the list.
TailwindConfigExportsWithPlugin ==
  [content |-> <<AppGlob>>,
   theme |-> [extend |-> <<>>],
   plugins |-> <<"@tailwindcss/typography">>]

\* module.exports of tailwind.config.js.  The two commented-out patterns
\* are not entries of the array.  An object without keys and an array
\* without elements are both the empty function.
TailwindConfigExports ==
  [content |-> <<AppGlob>>,
   theme |-> [extend |-> <<>>],
   plugins |-> <<>>]

(* --------------------- content glob semantics ------------------------- *)

\* Patterns are relative to the project root: a leading "./" is dropped.
StripDotSlash(pat) ==
  IF Len(pat) >= 2 /\ pat[1] = "." /\ pat[2] = "/"
  THEN SubSeq(pat, 3, Len(pat))
  ELSE pat

First(s, c) == CHOOSE k \in 1..Len(s) : s[k] = c /\ \A j \in 1..(k - 1) : s[j] # c

RECURSIVE BraceExpand(_)
\* "a{x,y}b" stands for the patterns "axb" and "ayb".
BraceExpand(pat) ==
  IF (\E i \in 1..Len(pat) : pat[i] = "{") /\ (\E i \in 1..Len(pat) : pat[i] = "}")
     /\ First(pat, "{") < First(pat, "}")
  THEN LET o == First(pat, "{")
           c == First(pat, "}")
           alts == SplitOn(SubSeq(pat, o + 1, c - 1), ",")
           pre == SubSeq(pat, 1, o - 1)
           suf == SubSeq(pat, c + 1, Len(pat))
       IN UNION {BraceExpand(pre \o alts[i] \o suf) : i \in 1..Len(alts)}
  ELSE {pat}

RECURSIVE WildMatch(_, _)
\* One path segment against one pattern segment: "*" stands for any run of
\* characters of the segment, every other character for itself.
WildMatch(pat, name) ==
  IF pat = <<>> THEN name = <<>>
  ELSE IF Head(pat) = "*"
       THEN \/ WildMatch(Tail(pat), name)
            \/ name # <<>> /\ WildMatch(pat, Tail(name))
       ELSE /\ name # <<>>
            /\ Head(name) = Head(pat)
            /\ WildMatch(Tail(pat), Tail(name))

RECURSIVE SegsMatch(_, _)
\* A path against a pattern, segment by segment: a "**" segment stands for
\* any number of directories, none included.
SegsMatch(psegs, segs) ==
  IF psegs = <<>> THEN segs = <<>>
  ELSE IF Head(psegs) = <<"*", "*">>
       THEN \/ SegsMatch(Tail(psegs), segs)
            \/ segs # <<>> /\ SegsMatch(psegs, Tail(segs))
       ELSE /\ segs # <<>>
            /\ WildMatch(Head(psegs), Head(segs))
            /\ SegsMatch(Tail(psegs), Tail(segs))

GlobMatch(pat, segs) ==
  \E q \in BraceExpand(StripDotSlash(pat)) : SegsMatch(SplitOn(q, "/"), segs)

\* Whether the file is one the content list selects for scanning.
ContentMatches(content, segs) ==
  \E i \in 1..Len(content) : GlobMatch(content[i], segs)

(* ------------------------- files of a project ------------------------- *)

DirNames ==
  {<<"a", "p", "p">>,
   <<"p", "a", "g", "e", "s">>,
   <<"c", "o", "m", "p", "o", "n", "e", "n", "t", "s">>,
   <<"a", "p", "p", "s">>}

Stems == {<<"p", "a", "g", "e">>, <<"x", ".", "t", "s", "x">>}

Exts ==
  {<<>>, <<"j", "s">>, <<"t", "s">>, <<"j", "s", "x">>, <<"t", "s", "x">>,
   <<"c", "s", "s">>, <<"m", "j", "s">>, <<"j", "s", "x", "x">>}

DirPaths == UNION {[1..d -> DirNames] : d \in 0..MaxDepth}

Files == [dirs : DirPaths, stem : Stems, ext : Exts]

NoFile == [dirs |-> <<>>, stem |-> <<>>, ext |-> <<>>]

FileName(f) == IF f.ext = <<>> THEN f.stem ELSE f.stem \o <<".">> \o f.ext

\* The path of a file from the project root, as its segments.
Segments(f) == f.dirs \o <<FileName(f)>>

(* ------------------------------ requests ------------------------------ *)

Origins == {"http://localhost:3000", "http://localhost:3004"}

Queries == {"", "?game=1"}

(* ------------------------------- actions ------------------------------ *)

Init ==
  /\ nextConfig = NextConfigExports
  /\ tailwindConfig = TailwindConfigExports
  /\ responses = <<>>
  /\ scanFile = NoFile
  /\ scanIncluded = FALSE

\* A page that reads the request: the paragraph is left out when the request
\* carries a query.
RequestReadingQuery(origin, query) ==
  /\ Len(responses) < MaxRequests
  /\ responses' = Append(responses,
                         [origin |-> origin, query |-> query,
                          markup |-> IF query = "" THEN Home
                                     ELSE JSX("main", "", <<H1>>)])
  /\ UNCHANGED <<nextConfig, tailwindConfig, scanFile, scanIncluded>>

\* A page request: the framework calls Home() and sends what it returns.
\* Home takes no argument, so nothing of the request reaches it.
Request(origin, query) ==
  /\ Len(responses) < MaxRequests
  /\ responses' = Append(responses,
                         [origin |-> origin, query |-> query, markup |-> Home])
  /\ UNCHANGED <<nextConfig, tailwindConfig, scanFile, scanIncluded>>

\* The CSS tool comes to a file of the project and decides from the content
\* list whether to scan it.
Scan(f) ==
  /\ scanFile = NoFile
  /\ scanFile' = f
  /\ scanIncluded' = ContentMatches(tailwindConfig.content, Segments(f))
  /\ UNCHANGED <<nextConfig, tailwindConfig, responses>>

\* The CSS tool is through with the file and goes on.
ScanDone ==
  /\ scanFile # NoFile
  /\ scanFile' = NoFile
  /\ scanIncluded' = FALSE
  /\ UNCHANGED <<nextConfig, tailwindConfig, responses>>

Next ==
  \/ \E o \in Origins, q \in Queries : Request(o, q)
  \/ \E f \in Files : Scan(f)
  \/ ScanDone

Spec == Init /\ [][Next]_vars

(* ------------------------------ properties ---------------------------- *)

HeadingText == "NBA Bad Call Tracker"

SentenceText ==
  "Track and review questionable referee decisions in the final moments of NBA games."

Markups == {responses[i].markup : i \in DOMAIN responses}

\* C1: the markup Home() returns holds exactly one h1 element, and the text
\* content of that element is exactly "NBA Bad Call Tracker".
C1_OneHeading ==
  \A m \in Markups :
    /\ Len(Elements(m, "h1")) = 1
    /\ TextContent(Elements(m, "h1")[1]) = HeadingText

C1_Witness ==
  /\ responses # <<>>
  /\ Elements(responses[1].markup, "h1") # <<>>
  /\ Len(TextContent(Elements(responses[1].markup, "h1")[1])) = 20

\* C2: the markup Home() returns holds exactly one p element, and its text
\* content, once the JSX whitespace rules have been applied to the indented
\* three-line source text, is exactly the descriptive sentence.
C2_OneParagraph ==
  \A m \in Markups :
    /\ Len(Elements(m, "p")) = 1
    /\ TextContent(Elements(m, "p")[1]) = SentenceText

C2_Witness ==
  /\ responses # <<>>
  /\ Elements(responses[1].markup, "p") # <<>>
  /\ Len(PText) > Len(CleanJSXText(PText))
  /\ Len(TextContent(Elements(responses[1].markup, "p")[1])) = 82

\* C3: the allowed-origin list of the build configuration is the four
\* origins http://localhost:3000 .. http://localhost:3003, in rising port
\* order, four entries, none twice and no other.
C3_AllowedOrigins ==
  LET a == nextConfig.experimental.allowedDevOrigins
  IN /\ Len(a) = 4
     /\ \A i \in 1..Len(a) : a[i] = "http://localhost:" \o ToString(2999 + i)
     /\ Cardinality({a[i] : i \in 1..Len(a)}) = Len(a)
     /\ a = <<"http://localhost:3000", "http://localhost:3001",
              "http://localhost:3002", "http://localhost:3003">>

C3_Witness ==
  /\ Len(responses) = MaxRequests
  /\ \E i \in DOMAIN nextConfig.experimental.allowedDevOrigins :
       nextConfig.experimental.allowedDevOrigins[i] = responses[1].origin
  /\ \A i \in DOMAIN nextConfig.experimental.allowedDevOrigins :
       nextConfig.experimental.allowedDevOrigins[i] # responses[2].origin

\* The characters after the last "." of a file name, none if it has no ".".
ExtOf(name) ==
  IF \E i \in 1..Len(name) : name[i] = "."
  THEN LET d == CHOOSE k \in 1..Len(name) :
                  name[k] = "." /\ \A j \in (k + 1)..Len(name) : name[j] # "."
       IN Str(SubSeq(name, d + 1, Len(name)))
  ELSE ""

UnderApp(f) == Len(f.dirs) >= 1 /\ Str(f.dirs[1]) = "app"

\* C4: the content list of the CSS-utility configuration has exactly one
\* entry, "./app/**/*.{js,ts,jsx,tsx}"; the pages/ and components/ patterns
\* are not entries; and a file of the project is selected by the list exactly
\* when it lies under the app directory, at any depth, and its extension is
\* js, ts, jsx or tsx.
C4_ContentGlob ==
  /\ Len(tailwindConfig.content) = 1
  /\ Str(tailwindConfig.content[1]) = "./app/**/*.{js,ts,jsx,tsx}"
  /\ \A i \in DOMAIN tailwindConfig.content :
       Str(tailwindConfig.content[i]) \notin
         {"./pages/**/*.{js,ts,jsx,tsx}", "./components/**/*.{js,ts,jsx,tsx}"}
  /\ scanFile # NoFile =>
       (scanIncluded <=>
          /\ UnderApp(scanFile)
          /\ ExtOf(FileName(scanFile)) \in {"js", "ts", "jsx", "tsx"})

C4_Witness ==
  /\ scanIncluded
  /\ Len(scanFile.dirs) = MaxDepth
  /\ Str(scanFile.dirs[MaxDepth]) = "pages"
  /\ Str(FileName(scanFile)) = "page.jsx"

\* C5: whatever the sequence of page requests, every response carries the
\* same markup, with the heading and the descriptive sentence in it: neither
\* the request nor the requests before it change what Home() returns.
C5_FixedMarkup ==
  /\ Cardinality(Markups) <= 1
  /\ \A m \in Markups :
       /\ \E h \in DOMAIN Elements(m, "h1") :
            TextContent(Elements(m, "h1")[h]) = HeadingText
       /\ \E q \in DOMAIN Elements(m, "p") :
            TextContent(Elements(m, "p")[q]) = SentenceText

C5_Witness ==
  /\ Len(responses) >= 2
  /\ responses[1].query # responses[2].query
  /\ responses[1].origin # responses[2].origin
  /\ responses[1].markup = responses[2].markup

\* C6: in the CSS-utility configuration theme.extend is an object without
\* keys and plugins is a list of length 0.
C6_EmptyThemeAndPlugins ==
  /\ DOMAIN tailwindConfig.theme.extend = {}
  /\ Len(tailwindConfig.plugins) = 0

C6_Witness ==
  /\ scanFile # NoFile
  /\ responses # <<>>
  /\ tailwindConfig.plugins = <<>>
  /\ tailwindConfig.theme.extend = <<>>

\* C7: the markup Home() returns is one main element whose children are the
\* h1 and then the p and nothing else; the heading comes before the paragraph
\* and neither lies inside the other.
C7_Structure ==
  \A m \in Markups :
    /\ m.type = "element" /\ m.tag = "main"
    /\ Len(m.children) = 2
    /\ Len(ElementChildren(m)) = 2
    /\ ElementChildren(m)[1].tag = "h1"
    /\ ElementChildren(m)[2].tag = "p"
    /\ Elements(ElementChildren(m)[1], "p") = <<>>
    /\ Elements(ElementChildren(m)[2], "h1") = <<>>
    /\ ElementChildren(ElementChildren(m)[1]) = <<>>
    /\ ElementChildren(ElementChildren(m)[2]) = <<>>

C7_Witness ==
  /\ responses # <<>>
  /\ responses[1].markup.tag = "main"
  /\ Len(responses[1].markup.children) = 2

====
